---- MODULE Spec2Model ----
(***************************************************************************)
(* State-machine model of LodeApp (src/src/application.js): the            *)
(* constructor, the handlers bound to the map, legend, opacity, search and *)
(* maps-list controls, and the two asynchronous boundaries (style load and *)
(* table fetch).  Handlers run to completion; every action below is one    *)
(* whole handler.                                                          *)
(***************************************************************************)
EXTENDS Integers, Sequences, FiniteSets, TLC

VARIABLES
    phase,        \* "new" before construction, "running" after it, "failed" when the constructor threw
    hasToken,     \* config.credentials.mapbox.accessToken is present
    StoreMap,     \* Store.Map      (persisted activeMapId)
    StoreOpacity, \* Store.Opacity  (persisted opacity)
    StoreLat,     \* Store.Lat      (persisted center, latitude)
    StoreLng,     \* Store.Lng      (persisted center, longitude)
    StoreZoom,    \* Store.Zoom     (persisted zoom level)
    current,      \* this.current   (a map id of the catalog, or NoMap for undefined)
    mapLive,      \* this.map is defined
    mapStyle,     \* style last handed to the render engine
    clickable,    \* SetClickableMap has been called since the last style switch
    sources,      \* names of the data sources on the render surface
    clusters,     \* names of the sources that have a cluster overlay
    layers,       \* ids of the layers attached to the render surface
    styleLoads,   \* style loads in flight, in order of issue
    legend,       \* this.group.legend: the legend entries and their toggle state
    styled,       \* last UpdateMapLayersWithLegendState directive
    searchStyled, \* last search highlight directive
    fit,          \* last FitBounds request
    mapsPopup,    \* the maps popup of the menu is open
    fetches,      \* table fetches in flight, in order of issue
    tableNode,    \* tables built in the table container since it was last emptied
    table,        \* this.table
    ev,           \* the event delivered by the last step
    log           \* the calls made by the handler of the last step, in order

vars == <<phase, hasToken, StoreMap, StoreOpacity, StoreLat, StoreLng, StoreZoom, current, mapLive, mapStyle,
          clickable, sources, clusters, layers, styleLoads, legend, styled,
          searchStyled, fit, mapsPopup, fetches, tableNode, table, ev, log>>

----------------------------------------------------------------------------
(* Bounds of the model *)

\* at most this many asynchronous operations (style loads and table fetches)
\* are in flight at once
MaxPending == 3
\* opacity levels are 0..MaxOpacity
MaxOpacity == 1

----------------------------------------------------------------------------
(* Configuration: the map catalog (config.maps) and the search settings *)

NoMap == "undefined"
NoStyle == "none"

\* keys of config.maps, in property order
MapOrder == <<"a", "b">>
MapIds == {MapOrder[i] : i \in DOMAIN MapOrder}
\* ids that are not keys of the catalog
UnknownIds == {"zz"}

Style(m) == IF m = "a" THEN "style_a" ELSE "style_b"
TableUrl(m) == IF m = "a" THEN "table_a.json" ELSE "table_b.json"

\* data is "none" when the entry has no data, "clustered" when data.cluster is set
DataSources(m) ==
    IF m = "a"
    THEN << [name |-> "src1", data |-> "geojson"],
            [name |-> "",     data |-> "geojson"] >>
    ELSE << [name |-> "src2", data |-> "clustered"],
            [name |-> "src3", data |-> "none"] >>

\* source is "" when the layer names no source
Layers(m) ==
    IF m = "a"
    THEN << [id |-> "l1", source |-> "src1"],
            [id |-> "l0", source |-> ""] >>
    ELSE << [id |-> "l2", source |-> "src2"],
            [id |-> "l3", source |-> "src3"],
            [id |-> "l4", source |-> "nosuch"] >>

\* number of entries of the legend spec
LegendSize(m) == IF m = "a" THEN 2 ELSE 1

\* indexes of the legend entries of the catalog's maps
LegendEntries == UNION {1..LegendSize(m) : m \in MapIds}

SearchItems == {"2410", "3520"}
SearchLayer == "csd-search"
SearchPadding == 30

Opacities == 0..MaxOpacity

\* values of this.map.Center and this.map.Zoom; the first of each is the
\* persisted view the session starts from
Centers == << [lat |-> 45, lng |-> -75], [lat |-> 60, lng |-> -100] >>
Zooms == <<4, 11>>

\* click locations, and the results QueryRenderedFeatures can give there
\* (topmost feature first)
Points == {"p1", "p2"}
HitTests == {<<>>, <<"f1", "f2">>}

----------------------------------------------------------------------------
(* Helpers *)

Entry(op, arg) == [op |-> op, arg |-> arg]

Ops(l) == {l[i].op : i \in DOMAIN l}

Remove(s, i) == [j \in 1..(Len(s) - 1) |-> IF j < i THEN s[j] ELSE s[j + 1]]

MarkStale(s) == [j \in DOMAIN s |-> [s[j] EXCEPT !.stale = TRUE]]

Event(name, arg, stale, threw) ==
    [name |-> name, arg |-> arg, stale |-> stale, threw |-> threw]

NoLegend == [of |-> NoMap, on |-> <<>>]
NoStyled == [of |-> NoMap, layers |-> {}, legend |-> NoLegend, opacity |-> 0]
NoSearchStyled == [layer |-> "none", id |-> "none"]
NoFit == [extent |-> "none", padding |-> 0, animate |-> TRUE]
NoTable == [map |-> NoMap, data |-> "none", focus |-> "none"]

----------------------------------------------------------------------------
(* Collaborators outside src/ *)

\* Util.FirstProperty(config.maps)
FirstProperty == MapOrder[1]

\* Factory.LegendControl(spec...) and legend.Reload(spec...): a full rebuild
\* from the legend spec of map m, every entry in its initial (enabled) state
FreshLegend(m) == [of |-> m, on |-> [i \in 1..LegendSize(m) |-> TRUE]]

\* the legend control's toggle of entry i
Toggled(lg, i) == [lg EXCEPT !.on[i] = ~lg.on[i]]

\* the render engine's SetStyle: the sources and layers of the style that is
\* replaced go with it, and the load of the new style is queued behind the
\* loads already in flight, which it supersedes but does not cancel
SurfaceAfterSetStyle == {}

StyleLoadsAfterSetStyle(loads, m) ==
    Append(MarkStale(loads), [for |-> m, stale |-> FALSE])

\* the render engine raises StyleChanged for any style load in flight,
\* a superseded one included
StyleChangedRaised(loads, i) == i \in DOMAIN loads

----------------------------------------------------------------------------
(* Pieces of the handlers *)

\* constructor: this.current = config.maps[Store.Map], else the first entry
ConstructorCurrentIgnoresStore(storeMap) == FirstProperty

ConstructorCurrent(storeMap) ==
    IF storeMap \in MapIds THEN storeMap ELSE FirstProperty

\* AddMap: the try block builds this.map unless the access token is missing,
\* in which case the throw is caught and logged and this.map stays undefined
AddMapLive(token) == token

\* AddBaseControls: this.map.AddControl(...) on an undefined this.map throws
AddBaseControlsThrows(live) == ~live

\* this.current.LayerIDs
LayerIDsOfAllMaps(m) ==
    UNION {{Layers(n)[i].id : i \in DOMAIN Layers(n)} : n \in MapIds}

LayerIDs(m) == {Layers(m)[i].id : i \in DOMAIN Layers(m)}

\* AddDataSources: the calls made on this.map, in order
RECURSIVE AddDataSourcesFrom(_, _)
AddDataSourcesFrom(ds, i) ==
    IF i > Len(ds) THEN <<>>
    ELSE (IF ds[i].name # "" /\ ds[i].data # "none"
          THEN <<Entry("AddSource", ds[i].name)>>
               \o (IF ds[i].data = "clustered"
                   THEN <<Entry("AddClusters", ds[i].name)>>
                   ELSE <<>>)
          ELSE <<>>)
         \o AddDataSourcesFrom(ds, i + 1)

AddDataSourcesNoClusters(cur) ==
    LET IsSource(e) == e.op = "AddSource"
    IN  IF cur # NoMap /\ Len(DataSources(cur)) > 0
        THEN SelectSeq(AddDataSourcesFrom(DataSources(cur), 1), IsSource)
        ELSE <<>>

AddDataSources(cur) ==
    IF cur # NoMap /\ Len(DataSources(cur)) > 0
    THEN AddDataSourcesFrom(DataSources(cur), 1)
    ELSE <<>>

\* AddLayersWithSources: the calls made on this.map, in order
RECURSIVE AddLayersFrom(_, _)
AddLayersFrom(ls, i) ==
    IF i > Len(ls) THEN <<>>
    ELSE (IF ls[i].source # ""
          THEN <<Entry("AddLayer", ls[i].id)>>
          ELSE <<>>)
         \o AddLayersFrom(ls, i + 1)

AddLayersWithSources(cur) ==
    IF cur # NoMap /\ Len(Layers(cur)) > 0
    THEN AddLayersFrom(Layers(cur), 1)
    ELSE <<>>

Args(l, op) == {l[i].arg : i \in {j \in DOMAIN l : l[j].op = op}}

\* ReloadTable: empty the table container, then start the fetch of
\* this.current.TableUrl
ReloadTable(cur) ==
    <<Entry("Dom.Empty", "table"), Entry("Net.JSON", TableUrl(cur))>>

NewFetch(cur) == [url |-> TableUrl(cur), stale |-> FALSE]

\* the directive of UpdateMapLayersWithLegendState(this.current.LayerIDs,
\* this.group.legend, Store.Opacity)
Directive(cur, lg, opacity) ==
    [of |-> cur, layers |-> LayerIDs(cur), legend |-> lg, opacity |-> opacity]

\* OnOpacitySlider_Changed: Store.Opacity = ev.opacity
StoredOpacityAdded(stored, evOpacity) == (stored + evOpacity) % (MaxOpacity + 1)

StoredOpacity(stored, evOpacity) == evOpacity

\* OnOpacitySlider_Changed: the Store.Opacity handed to
\* UpdateMapLayersWithLegendState is read after the assignment
OpacityReadBeforeStore(before, after) == before

OpacityRead(before, after) == after

\* OnMapSelected_Handler: this.current = ev.map
SelectedCurrentStale(prev, evMap) == prev

SelectedCurrent(prev, evMap) == evMap

\* OnMapSelected_Handler: this.group.legend.Reload(this.current.Legend, ...)
SelectedLegendKept(cur, old) == old

SelectedLegend(cur, old) == FreshLegend(cur)

----------------------------------------------------------------------------
(* Initial state: the page is loaded, the configuration and the persisted   *)
(* view state are read, the application is not constructed yet              *)

Init ==
    /\ phase = "new"
    /\ hasToken \in BOOLEAN
    /\ StoreMap \in MapIds \cup UnknownIds
    /\ StoreOpacity \in Opacities
    /\ StoreLat = Centers[1].lat
    /\ StoreLng = Centers[1].lng
    /\ StoreZoom = Zooms[1]
    /\ current = NoMap
    /\ mapLive = FALSE
    /\ mapStyle = NoStyle
    /\ clickable = FALSE
    /\ sources = {}
    /\ clusters = {}
    /\ layers = {}
    /\ styleLoads = <<>>
    /\ legend = NoLegend
    /\ styled = NoStyled
    /\ searchStyled = NoSearchStyled
    /\ fit = NoFit
    /\ mapsPopup = FALSE
    /\ fetches = <<>>
    /\ tableNode = <<>>
    /\ table = NoTable
    /\ ev = Event("load", "", FALSE, FALSE)
    /\ log = <<>>

----------------------------------------------------------------------------
(* constructor(node, config) *)

Constructor ==
    /\ phase = "new"
    /\ LET cur == ConstructorCurrent(StoreMap)
           live == AddMapLive(hasToken)
           threw == AddBaseControlsThrows(live)
           addMap == IF live THEN <<Entry("Factory.Map", Style(cur))>>
                     ELSE <<Entry("console.error", "token")>>
       IN  /\ current' = cur
           /\ mapLive' = live
           /\ mapStyle' = IF live THEN Style(cur) ELSE NoStyle
           /\ styleLoads' = IF live THEN <<[for |-> cur, stale |-> FALSE]>> ELSE <<>>
           /\ phase' = IF threw THEN "failed" ELSE "running"
           /\ legend' = IF threw THEN legend ELSE FreshLegend(cur)
           /\ fetches' = IF threw THEN fetches ELSE <<NewFetch(cur)>>
           /\ ev' = Event("Constructor", StoreMap, FALSE, threw)
           /\ log' = addMap \o <<Entry("AddSearch", "")>>
                     \o (IF threw THEN <<>>
                         ELSE <<Entry("AddBaseControls", ""),
                                Entry("Factory.LegendControl", cur),
                                Entry("AddMenu", "")>> \o ReloadTable(cur))
    /\ UNCHANGED <<hasToken, StoreLat, StoreLng, StoreZoom, StoreMap, StoreOpacity, clickable, sources, clusters,
                   layers, styled, searchStyled, fit, mapsPopup, tableNode, table>>

----------------------------------------------------------------------------
(* The maps button of the menu opens the popup that lists the maps *)

OpenMapsPopup ==
    /\ phase = "running"
    /\ ~mapsPopup
    /\ mapsPopup' = TRUE
    /\ ev' = Event("OpenMapsPopup", "", FALSE, FALSE)
    /\ log' = <<>>
    /\ UNCHANGED <<phase, hasToken, StoreLat, StoreLng, StoreZoom, StoreMap, StoreOpacity, current, mapLive,
                   mapStyle, clickable, sources, clusters, layers, styleLoads,
                   legend, styled, searchStyled, fit, fetches, tableNode, table>>

----------------------------------------------------------------------------
(* OnMapSelected_Handler(ev): ev.id is the selected id, ev.map is            *)
(* config.maps[ev.id], undefined when ev.id is not a key of the catalog.     *)
(* With ev.map undefined, this.current.Style throws after Store.Map and      *)
(* this.current are assigned.                                                *)

OnMapSelected_Handler(id) ==
    /\ phase = "running"
    /\ mapsPopup
    /\ Len(styleLoads) + Len(fetches) + 2 <= MaxPending
    /\ LET evMap == IF id \in MapIds THEN id ELSE NoMap
           cur == SelectedCurrent(current, evMap)
           head == <<Entry("popup.Hide", "maps"), Entry("Store.Map", id),
                     Entry("current", cur)>>
       IN  /\ mapsPopup' = FALSE
           /\ StoreMap' = id
           /\ current' = cur
           /\ IF cur = NoMap
              THEN /\ ev' = Event("MapSelected", id, FALSE, TRUE)
                   /\ log' = head
                   /\ UNCHANGED <<mapStyle, clickable, sources, clusters, layers,
                                  styleLoads, legend, fetches, tableNode>>
              ELSE /\ mapStyle' = Style(cur)
                   /\ clickable' = FALSE
                   /\ sources' = SurfaceAfterSetStyle
                   /\ clusters' = SurfaceAfterSetStyle
                   /\ layers' = SurfaceAfterSetStyle
                   /\ styleLoads' = StyleLoadsAfterSetStyle(styleLoads, cur)
                   /\ tableNode' = <<>>
                   /\ fetches' = Append(MarkStale(fetches), NewFetch(cur))
                   /\ legend' = SelectedLegend(cur, legend)
                   /\ ev' = Event("MapSelected", id, FALSE, FALSE)
                   /\ log' = head \o <<Entry("SetStyle", Style(cur))>>
                             \o ReloadTable(cur)
                             \o <<Entry("legend.Reload", legend'.of)>>
    /\ UNCHANGED <<phase, hasToken, StoreLat, StoreLng, StoreZoom, StoreOpacity, mapLive, styled, searchStyled,
                   fit, table>>

----------------------------------------------------------------------------
(* OnMapStyleChanged_Handler(ev): the render engine signals that style load  *)
(* i has completed                                                           *)

OnMapStyleChanged_Handler(i) ==
    /\ phase = "running"
    /\ mapLive
    /\ StyleChangedRaised(styleLoads, i)
    /\ LET srcs == AddDataSources(current)
           lyrs == AddLayersWithSources(current)
           threw == current = NoMap
       IN  /\ styleLoads' = Remove(styleLoads, i)
           /\ clickable' = TRUE
           /\ sources' = sources \cup Args(srcs, "AddSource")
           /\ clusters' = clusters \cup Args(srcs, "AddClusters")
           /\ layers' = layers \cup Args(lyrs, "AddLayer")
           /\ styled' = IF threw THEN styled
                        ELSE Directive(current, legend, StoreOpacity)
           /\ ev' = Event("StyleChanged", styleLoads[i].for, styleLoads[i].stale, threw)
           /\ log' = <<Entry("SetClickableMap", "")>> \o srcs \o lyrs
                     \o (IF threw THEN <<>>
                         ELSE <<Entry("ApplyLegendStylesToMapLayers", current),
                                Entry("UpdateMapLayersWithLegendState", current)>>)
    /\ UNCHANGED <<phase, hasToken, StoreLat, StoreLng, StoreZoom, StoreMap, StoreOpacity, current, mapLive,
                   mapStyle, legend, searchStyled, fit, mapsPopup, fetches,
                   tableNode, table>>

----------------------------------------------------------------------------
(* ReloadTable's completion: Net.JSON(...).then(ev => ...) for fetch i.      *)
(* this.current is read when the completion runs.                            *)

TableFetched(i) ==
    /\ phase = "running"
    /\ i \in DOMAIN fetches
    /\ LET threw == current = NoMap
           t == [map |-> current, data |-> fetches[i].url, focus |-> "none"]
       IN  /\ fetches' = Remove(fetches, i)
           /\ tableNode' = IF threw THEN tableNode ELSE Append(tableNode, t)
           /\ table' = IF threw THEN table ELSE t
           /\ ev' = Event("TableFetched", fetches[i].url, fetches[i].stale, threw)
           /\ log' = IF threw THEN <<>>
                     ELSE <<Entry("UpdateTable", fetches[i].url),
                            Entry("new Table", current)>>
    /\ UNCHANGED <<phase, hasToken, StoreLat, StoreLng, StoreZoom, StoreMap, StoreOpacity, current, mapLive,
                   mapStyle, clickable, sources, clusters, layers, styleLoads,
                   legend, styled, searchStyled, fit, mapsPopup>>

\* the fetch is rejected: there is no rejection handler, nothing runs
TableFetchFailed(i) ==
    /\ phase = "running"
    /\ i \in DOMAIN fetches
    /\ fetches' = Remove(fetches, i)
    /\ ev' = Event("TableFetchFailed", fetches[i].url, fetches[i].stale, FALSE)
    /\ log' = <<>>
    /\ UNCHANGED <<phase, hasToken, StoreLat, StoreLng, StoreZoom, StoreMap, StoreOpacity, current, mapLive,
                   mapStyle, clickable, sources, clusters, layers, styleLoads,
                   legend, styled, searchStyled, fit, mapsPopup, tableNode, table>>

----------------------------------------------------------------------------
(* OnLegend_Changed(ev): the legend control toggles entry i and raises       *)
(* LegendChange; with i = 0 the event is delivered again for the legend      *)
(* state as it is.  The handler does not read ev: it reads this.group.legend *)

OnLegend_Changed(i) ==
    /\ phase = "running"
    /\ i = 0 \/ i \in DOMAIN legend.on
    /\ LET threw == current = NoMap
       IN  /\ legend' = IF i = 0 THEN legend ELSE Toggled(legend, i)
           /\ styled' = IF threw THEN styled
                        ELSE Directive(current, legend', StoreOpacity)
           /\ ev' = Event("LegendChange", IF i = 0 THEN "same" ELSE "toggle",
                          FALSE, threw)
           /\ log' = IF threw THEN <<>>
                     ELSE <<Entry("UpdateMapLayersWithLegendState", current)>>
    /\ UNCHANGED <<phase, hasToken, StoreLat, StoreLng, StoreZoom, StoreMap, StoreOpacity, current, mapLive,
                   mapStyle, clickable, sources, clusters, layers, styleLoads,
                   searchStyled, fit, mapsPopup, fetches, tableNode, table>>

(* OnOpacitySlider_Changed(ev) with ev.opacity = o *)

OnOpacitySlider_Changed(o) ==
    /\ phase = "running"
    /\ LET threw == current = NoMap
       IN  /\ StoreOpacity' = StoredOpacity(StoreOpacity, o)
           /\ styled' = IF threw THEN styled
                        ELSE Directive(current, legend,
                                       OpacityRead(StoreOpacity, StoreOpacity'))
           /\ ev' = Event("OpacitySliderChanged", ToString(o), FALSE, threw)
           /\ log' = <<Entry("Store.Opacity", "")>>
                     \o (IF threw THEN <<>>
                         ELSE <<Entry("UpdateMapLayersWithLegendState", current)>>)
    /\ UNCHANGED <<phase, hasToken, StoreLat, StoreLng, StoreZoom, StoreMap, current, mapLive, mapStyle,
                   clickable, sources, clusters, layers, styleLoads, legend,
                   searchStyled, fit, mapsPopup, fetches, tableNode, table>>

----------------------------------------------------------------------------
(* OnSearchChange_Handler(ev) with ev.item = item.  The search control is    *)
(* bound in AddSearch, before AddBaseControls.  this.table is undefined      *)
(* until a table fetch has completed: this.table.UpdateTable then throws,    *)
(* before the styling and the FitBounds calls.                               *)

OnSearchChange_Handler(item) ==
    /\ phase # "new"
    /\ LET threw == table = NoTable \/ ~mapLive
           focused == [table EXCEPT !.focus = item]
       IN  /\ table' = IF table = NoTable THEN table ELSE focused
           /\ tableNode' = IF table = NoTable \/ tableNode = <<>> THEN tableNode
                           ELSE [tableNode EXCEPT ![Len(tableNode)] = focused]
           /\ searchStyled' = IF threw THEN searchStyled
                              ELSE [layer |-> SearchLayer, id |-> item]
           /\ fit' = IF threw THEN fit
                     ELSE [extent |-> item, padding |-> SearchPadding,
                           animate |-> FALSE]
           /\ ev' = Event("SearchChange", item, FALSE, threw)
           /\ log' = IF table = NoTable THEN <<>>
                     ELSE <<Entry("table.UpdateTable", item)>>
                          \o (IF threw THEN <<>>
                              ELSE <<Entry("ApplyLegendStylesToMapLayers", SearchLayer),
                                     Entry("FitBounds", item)>>)
    /\ UNCHANGED <<phase, hasToken, StoreLat, StoreLng, StoreZoom, StoreMap, StoreOpacity, current, mapLive,
                   mapStyle, clickable, sources, clusters, layers, styleLoads,
                   legend, styled, mapsPopup, fetches>>

----------------------------------------------------------------------------
(* OnMapMoveEnd_Handler(ev) with this.map.Center = Centers[c], and           *)
(* OnMapZoomEnd_Handler(ev) with this.map.Zoom = Zooms[z]                    *)

\* Store.Lat = this.map.Center.lat
PersistedLatFromLng(center) == center.lng

PersistedLat(center) == center.lat

\* Store.Lng = this.map.Center.lng
PersistedLng(center) == center.lng

OnMapMoveEnd_Handler(c) ==
    /\ phase = "running"
    /\ mapLive
    /\ StoreLat' = PersistedLat(Centers[c])
    /\ StoreLng' = PersistedLng(Centers[c])
    /\ ev' = Event("MoveEnd", ToString(c), FALSE, FALSE)
    /\ log' = <<Entry("Store.Lat", ToString(c)), Entry("Store.Lng", ToString(c))>>
    /\ UNCHANGED <<phase, hasToken, StoreMap, StoreOpacity, StoreZoom, current,
                   mapLive, mapStyle, clickable, sources, clusters, layers,
                   styleLoads, legend, styled, searchStyled, fit, mapsPopup,
                   fetches, tableNode, table>>

OnMapZoomEnd_Handler(z) ==
    /\ phase = "running"
    /\ mapLive
    /\ StoreZoom' = Zooms[z]
    /\ ev' = Event("ZoomEnd", ToString(z), FALSE, FALSE)
    /\ log' = <<Entry("Store.Zoom", ToString(z))>>
    /\ UNCHANGED <<phase, hasToken, StoreMap, StoreOpacity, StoreLat, StoreLng,
                   current, mapLive, mapStyle, clickable, sources, clusters,
                   layers, styleLoads, legend, styled, searchStyled, fit,
                   mapsPopup, fetches, tableNode, table>>

----------------------------------------------------------------------------
(* OnMapClick_Handler(ev) with ev.point = ev.lngLat = pt; features is what   *)
(* QueryRenderedFeatures(ev.point, this.current.ClickableLayersIDs) returns  *)

\* the feature the popup is built from
ClickedFeatureLast(features) == features[Len(features)]

ClickedFeature(features) == features[1]

OnMapClick_Handler(pt, features) ==
    /\ phase = "running"
    /\ mapLive
    /\ LET threw == current = NoMap
           query == <<Entry("QueryRenderedFeatures",
                            [point |-> pt, layersOf |-> current,
                             result |-> features])>>
       IN  /\ ev' = Event("Click", pt, FALSE, threw)
           /\ log' = IF threw THEN <<>>
                     ELSE IF Len(features) = 0 THEN query
                     ELSE query \o <<Entry("InfoPopup",
                                           [at |-> pt,
                                            feature |-> ClickedFeature(features),
                                            fieldsOf |-> current])>>
    /\ UNCHANGED <<phase, hasToken, StoreMap, StoreOpacity, StoreLat, StoreLng,
                   StoreZoom, current, mapLive, mapStyle, clickable, sources,
                   clusters, layers, styleLoads, legend, styled, searchStyled,
                   fit, mapsPopup, fetches, tableNode, table>>

----------------------------------------------------------------------------
(* Specifications.  In Spec the MapSelected event carries the ids the maps   *)
(* list is built from (the keys of config.maps); in SpecAnyId the handler is *)
(* also driven with an id that is not a key of the catalog.                  *)

Next ==
    \/ Constructor
    \/ OpenMapsPopup
    \/ \E id \in MapIds : OnMapSelected_Handler(id)
    \/ \E i \in 1..MaxPending : OnMapStyleChanged_Handler(i)
    \/ \E i \in 1..MaxPending : TableFetched(i)
    \/ \E i \in 1..MaxPending : TableFetchFailed(i)
    \/ \E i \in LegendEntries \cup {0} : OnLegend_Changed(i)
    \/ \E o \in Opacities : OnOpacitySlider_Changed(o)
    \/ \E item \in SearchItems : OnSearchChange_Handler(item)

Spec == Init /\ [][Next]_vars

NextAnyId ==
    \/ Next
    \/ \E id \in UnknownIds : OnMapSelected_Handler(id)

SpecAnyId == Init /\ [][NextAnyId]_vars

\* the pan, zoom and click events of the map
MapEvents ==
    \/ \E c \in DOMAIN Centers : OnMapMoveEnd_Handler(c)
    \/ \E z \in DOMAIN Zooms : OnMapZoomEnd_Handler(z)
    \/ \E pt \in Points : \E features \in HitTests :
          OnMapClick_Handler(pt, features)

\* SpecView: the map's own events (style, pan, zoom, click) with
\* construction, map selection and the table fetches
NextView ==
    \/ Constructor
    \/ OpenMapsPopup
    \/ \E id \in MapIds : OnMapSelected_Handler(id)
    \/ \E i \in 1..MaxPending : OnMapStyleChanged_Handler(i)
    \/ \E i \in 1..MaxPending : TableFetched(i)
    \/ \E i \in 1..MaxPending : TableFetchFailed(i)
    \/ MapEvents

SpecView == Init /\ [][NextView]_vars

\* SpecAll: every handler of the model
NextAll == Next \/ MapEvents

SpecAll == Init /\ [][NextAll]_vars

\* the handlers of Next when every table fetch is answered
NextOk ==
    \/ Constructor
    \/ OpenMapsPopup
    \/ \E id \in MapIds : OnMapSelected_Handler(id)
    \/ \E i \in 1..MaxPending : OnMapStyleChanged_Handler(i)
    \/ \E i \in 1..MaxPending : TableFetched(i)
    \/ \E i \in LegendEntries \cup {0} : OnLegend_Changed(i)
    \/ \E o \in Opacities : OnOpacitySlider_Changed(o)
    \/ \E item \in SearchItems : OnSearchChange_Handler(item)

SpecOk == Init /\ [][NextOk]_vars

----------------------------------------------------------------------------
(* Properties *)

\* the source a layer of map m names
LayerSource(m, id) ==
    (CHOOSE l \in {Layers(m)[i] : i \in DOMAIN Layers(m)} : l.id = id).source

StylingOps == {"AddSource", "AddClusters", "AddLayer",
               "ApplyLegendStylesToMapLayers", "UpdateMapLayersWithLegendState"}

\* C1: a table-fetch completion that belongs to an earlier map switch is
\* discarded (its handler does nothing), and every table shown holds the
\* dataset fetched from the current map's tableUrl.
C1_StaleFetchDiscarded ==
    /\ (ev.name = "TableFetched" /\ ev.stale) => (log = <<>> /\ ~ev.threw)
    /\ phase = "running" =>
         \A k \in DOMAIN tableNode : tableNode[k].data = TableUrl(current)

\* C2: a style-load completion that belongs to a style switch issued before
\* the most recent OnMapSelected adds no source, adds no layer and applies no
\* styling.
C2_StaleStyleDiscarded ==
    (ev.name = "StyleChanged" /\ ev.stale) => Ops(log) \cap StylingOps = {}

\* C3: construction sets current to the catalog entry of the persisted id, or
\* to the catalog's first entry when the persisted id is not a key; with a
\* usable configuration it then completes, and the map, the legend and the
\* table fetch are those of that entry.
C3_StartupFallback ==
    ev.name = "Constructor" =>
        /\ current = (IF StoreMap \in MapIds THEN StoreMap ELSE MapOrder[1])
        /\ hasToken =>
             /\ phase = "running"
             /\ ~ev.threw
             /\ mapLive
             /\ mapStyle = Style(current)
             /\ legend.of = current
             /\ fetches = <<[url |-> TableUrl(current), stale |-> FALSE]>>

C3_Witness ==
    /\ ev.name = "Constructor"
    /\ StoreMap \notin MapIds
    /\ phase = "running"
    /\ current = MapOrder[1]
    /\ legend.of = MapOrder[1]

\* C4: in every state after construction the persisted activeMapId is a key
\* of the catalog and names the current map.
C4_StoreMapNamesCurrent ==
    phase = "running" => (StoreMap \in MapIds /\ StoreMap = current)

\* C5: OnMapSelected with an id that is not a key of the catalog changes
\* neither the persisted id, the current map, the legend nor the table, and
\* issues no style switch and no table fetch.
C5_UnknownIdNoOp ==
    [][(ev'.name = "MapSelected" /\ ev'.arg \notin MapIds) =>
          UNCHANGED <<StoreMap, current, legend, tableNode, table, mapStyle,
                      styleLoads, fetches>>]_vars

\* C6: when the constructor or OnMapSelected returns, the legend holds
\* exactly the entries of the current map, each in its initial state.
C6_LegendFresh ==
    (ev.name \in {"Constructor", "MapSelected"} /\ ~ev.threw) =>
        /\ legend.of = current
        /\ DOMAIN legend.on = 1..LegendSize(current)
        /\ \A i \in DOMAIN legend.on : legend.on[i]

\* map a was active (its table was built), an entry was toggled off while b
\* was active, and a has just been selected again
C6_Witness ==
    /\ ev.name = "MapSelected"
    /\ current = "a"
    /\ table.map = "a"
    /\ styled.of = "b"
    /\ \E i \in DOMAIN styled.legend.on : ~styled.legend.on[i]
    /\ legend = FreshLegend("a")

\* C7: OnSearchSelected(item), in any state after construction, focuses the
\* table on item, fits the map to item's extent with animation off and
\* padding 30, and applies the highlight directive to the search layer.
C7_SearchAllEffects ==
    (ev.name = "SearchChange" /\ phase = "running") =>
        /\ ~ev.threw
        /\ table.focus = ev.arg
        /\ fit = [extent |-> ev.arg, padding |-> 30, animate |-> FALSE]
        /\ searchStyled = [layer |-> SearchLayer, id |-> ev.arg]

\* C8: without an access token the constructor still completes, without a
\* live map.
C8_NoTokenConstructs ==
    (ev.name = "Constructor" /\ ~hasToken) =>
        (~ev.threw /\ phase = "running" /\ ~mapLive)

\* C9: OnMapSelected(newId) hides the popup, persists newId, sets current,
\* switches to the new map's style, starts the table reload for the new
\* map's tableUrl and rebuilds the legend from the new map, in this order.
C9_MapSelectedOrder ==
    ev.name = "MapSelected" =>
        /\ log = << Entry("popup.Hide", "maps"),
                    Entry("Store.Map", ev.arg),
                    Entry("current", ev.arg),
                    Entry("SetStyle", Style(ev.arg)),
                    Entry("Dom.Empty", "table"),
                    Entry("Net.JSON", TableUrl(ev.arg)),
                    Entry("legend.Reload", ev.arg) >>
        /\ ~mapsPopup
        /\ StoreMap = ev.arg
        /\ current = ev.arg
        /\ mapStyle = Style(ev.arg)
        /\ styleLoads[Len(styleLoads)] = [for |-> ev.arg, stale |-> FALSE]
        /\ tableNode = <<>>
        /\ fetches[Len(fetches)] = [url |-> TableUrl(ev.arg), stale |-> FALSE]

\* b is selected while the table fetch of a is still in flight
C9_Witness ==
    /\ ev.name = "MapSelected"
    /\ ev.arg = "b"
    /\ Len(fetches) = 2
    /\ fetches[1] = [url |-> TableUrl("a"), stale |-> TRUE]

\* C10: on StyleReady a layer is attached only if its source is one of the
\* data sources added in that same StyleReady.
C10_LayersHaveSources ==
    ev.name = "StyleChanged" =>
        \A id \in Args(log, "AddLayer") :
            LayerSource(current, id) \in Args(log, "AddSource")

----------------------------------------------------------------------------
(* Legend and opacity recomputation *)

\* the directive that (current map, legend state, persisted opacity) determine
IsDirectiveOf(d, cur, lg, opacity) ==
    /\ d.of = cur
    /\ d.layers = {Layers(cur)[k].id : k \in DOMAIN Layers(cur)}
    /\ d.legend = lg
    /\ d.opacity = opacity

\* C11: the directive a legend change or an opacity change leaves is the one
\* the resulting legend state and persisted opacity determine, a legend
\* change leaves the persisted opacity alone and an opacity change persists
\* its level and leaves the legend alone: the final directive and the
\* persisted opacity do not depend on the order of delivery.
C11_LegendOpacityCommute ==
    [][/\ (ev'.name = "LegendChange" /\ ~ev'.threw) =>
             /\ StoreOpacity' = StoreOpacity
             /\ IsDirectiveOf(styled', current', legend', StoreOpacity')
       /\ (ev'.name = "OpacitySliderChanged" /\ ~ev'.threw) =>
             /\ legend' = legend
             /\ ToString(StoreOpacity') = ev'.arg
             /\ IsDirectiveOf(styled', current', legend', StoreOpacity')]_vars

\* an opacity change is delivered with the level already persisted, after a
\* legend change has disabled an entry
C11_Witness ==
    /\ ev.name = "OpacitySliderChanged"
    /\ ev.arg = "1"
    /\ StoreOpacity = 1
    /\ \E i \in DOMAIN legend.on : ~legend.on[i]
    /\ styled = [of |-> current, layers |-> LayerIDs(current),
                 legend |-> legend, opacity |-> 1]

\* C12: delivering the same legend change, or the same opacity change, a
\* second time makes the same calls with the same directive on the same
\* layer ids and leaves the persisted state as the first delivery left it.
C12_RecomputeIdempotent ==
    [][((/\ ev.name = "LegendChange"
         /\ ev'.name = "LegendChange"
         /\ ev'.arg = "same")
        \/ (/\ ev.name = "OpacitySliderChanged"
            /\ ev'.name = "OpacitySliderChanged"
            /\ ev'.arg = ev.arg)) =>
          /\ styled' = styled
          /\ Args(log', "UpdateMapLayersWithLegendState")
               = Args(log, "UpdateMapLayersWithLegendState")
          /\ UNCHANGED <<StoreMap, StoreOpacity, legend, current>>]_vars

\* the legend change that disabled an entry has been delivered twice
C12_Witness ==
    /\ ev.name = "LegendChange"
    /\ ev.arg = "same"
    /\ \E i \in DOMAIN legend.on : ~legend.on[i]
    /\ styled.legend = legend
    /\ styled.opacity = StoreOpacity

\* C13: OnLegendChanged applies the directive to the layer ids of the map
\* that is current and to no other layer, and leaves the table, the
\* persisted view state and the current map unchanged.
C13_LegendChangeFrame ==
    [][ev'.name = "LegendChange" =>
          /\ log' = <<Entry("UpdateMapLayersWithLegendState", current)>>
          /\ styled'.layers = {Layers(current)[k].id : k \in DOMAIN Layers(current)}
          /\ UNCHANGED <<StoreMap, StoreOpacity, StoreLat, StoreLng, StoreZoom,
                         current, table, tableNode, fetches, searchStyled,
                         fit>>]_vars

\* a legend change while b is current, after a was current
C13_Witness ==
    /\ ev.name = "LegendChange"
    /\ ev.arg = "toggle"
    /\ current = "b"
    /\ table.map = "a"
    /\ styled.layers = {"l2", "l3", "l4"}

----------------------------------------------------------------------------
(* Pan, zoom and click *)

\* C14: OnPanSettled persists the map's center as Store.Lat/Store.Lng and
\* OnZoomSettled persists the map's zoom as Store.Zoom; neither applies a
\* styling directive, and neither changes the persisted map id, the persisted
\* opacity, the current map, the legend or the table.
C14_PanZoomPersist ==
    [][/\ ev'.name = "MoveEnd" =>
             /\ \E c \in DOMAIN Centers :
                  /\ ev'.arg = ToString(c)
                  /\ StoreLat' = Centers[c].lat
                  /\ StoreLng' = Centers[c].lng
             /\ UNCHANGED StoreZoom
       /\ ev'.name = "ZoomEnd" =>
             /\ \E z \in DOMAIN Zooms :
                  /\ ev'.arg = ToString(z)
                  /\ StoreZoom' = Zooms[z]
             /\ UNCHANGED <<StoreLat, StoreLng>>
       /\ ev'.name \in {"MoveEnd", "ZoomEnd"} =>
             /\ Ops(log') \cap StylingOps = {}
             /\ UNCHANGED <<StoreMap, StoreOpacity, current, legend, styled,
                            searchStyled, table, tableNode, fetches>>]_vars

\* the view was panned and then zoomed, away from the persisted view the
\* session started from, while b is current
C14_Witness ==
    /\ ev.name = "ZoomEnd"
    /\ current = "b"
    /\ StoreLat = Centers[2].lat
    /\ StoreLng = Centers[2].lng
    /\ StoreZoom = Zooms[2]

\* C15: OnFeatureClicked(point) hit-tests the current map's clickable layers
\* at the point; with no feature it requests no popup and changes nothing,
\* otherwise it requests exactly one popup, at the click location, built from
\* the first feature of the result and the current map's fields.
C15_ClickPopup ==
    [][ev'.name = "Click" =>
          /\ Len(log') >= 1
          /\ log'[1].op = "QueryRenderedFeatures"
          /\ log'[1].arg.point = ev'.arg
          /\ log'[1].arg.layersOf = current
          /\ IF Len(log'[1].arg.result) = 0
             THEN Len(log') = 1
             ELSE /\ Len(log') = 2
                  /\ log'[2] = Entry("InfoPopup",
                                     [at |-> ev'.arg,
                                      feature |-> log'[1].arg.result[1],
                                      fieldsOf |-> current])
          /\ UNCHANGED <<phase, hasToken, StoreMap, StoreOpacity, StoreLat,
                         StoreLng, StoreZoom, current, mapLive, mapStyle,
                         clickable, sources, clusters, layers, styleLoads,
                         legend, styled, searchStyled, fit, mapsPopup, fetches,
                         tableNode, table>>]_vars

\* a click on two overlapping features after b was selected
C15_Witness ==
    /\ ev.name = "Click"
    /\ StoreMap = "b"
    /\ current = "b"
    /\ Len(log) = 2
    /\ log[1].arg.result = <<"f1", "f2">>
    /\ log[2].arg.feature = "f1"

----------------------------------------------------------------------------
(* Table replacement, quiescent consistency, order within StyleChanged *)

\* C16: between two consecutive emptyings of the table container at most one
\* table is built in it, so the container never holds more than one table,
\* also when two fetches were outstanding together and both complete.
\* tableNode is the sequence of tables built since the last Dom.Empty.
C16_OneTablePerEmptying == Len(tableNode) <= 1

\* the data sources of map m that have both a name and data
AddableSources(m) ==
    {DataSources(m)[i].name :
        i \in {j \in DOMAIN DataSources(m) :
                 DataSources(m)[j].name # "" /\ DataSources(m)[j].data # "none"}}

\* C17: whenever no style load and no table fetch is outstanding, every
\* issued one having completed successfully, the surface's sources and layers
\* are those of the current map, the legend is the current map's, the table
\* shows the dataset of the current map's tableUrl, and the persisted
\* activeMapId names the current map.
C17_QuiescentConsistent ==
    (phase = "running" /\ mapLive /\ styleLoads = <<>> /\ fetches = <<>>) =>
        /\ StoreMap = current
        /\ legend.of = current
        /\ sources = AddableSources(current)
        /\ layers \subseteq LayerIDs(current)
        /\ table # NoTable
        /\ table.data = TableUrl(current)
        /\ \A k \in DOMAIN tableNode : tableNode[k].data = TableUrl(current)

\* positions of the calls of op in the sequence of calls l
Positions(l, op) == {j \in DOMAIN l : l[j].op = op}

C19_NoStylingBeforeStyleReady ==
    [][(/\ ev.name = "MapSelected"
        /\ ~ev.threw
        /\ ev'.name \in {"LegendChange", "OpacitySliderChanged"})
       => "UpdateMapLayersWithLegendState" \notin Ops(log')]_vars

====
